---------------------------- MODULE Spec2Model ----------------------------
(***************************************************************************)
(* Model of mail-filter: the batch orchestrator (EmailFilteringChain), the *)
(* classifier adapter (AIProcessor), the rule store (RulesManager) and the *)
(* workflow driver (EmailFilteringAgent) on its mailbox (GmailClient).     *)
(*                                                                         *)
(* Conventions                                                             *)
(*  - a message is represented by its identifier (a natural number);       *)
(*  - a confidence is an integer number of hundredths (0.5 is 50);         *)
(*  - an error message is a sequence of one-character strings, so that     *)
(*    toLowerCase() and includes() are computed, not assumed;              *)
(*  - Math.random() is k / JitterSteps for k in 0 .. JitterSteps-1, a      *)
(*    value of [0, 1); delays are computed in exact rational arithmetic.   *)
(*  - steps are taken at the awaits of the code: a wait (this.delay) and a *)
(*    classifier call (analyzeEmails) are each one step, together with the *)
(*    synchronous code that follows until the next await.                  *)
(*  - the awaited call `this.aiProcessor.analyzeEmails(batch, rules)` at   *)
(*    langchainIntegration.ts:179 either resolves (ClassifyResolves, with  *)
(*    the adapter's code computing the decisions) or rejects               *)
(*    (ClassifyRejects, handled by the catch block at lines 180-195).      *)
(***************************************************************************)
EXTENDS Integers, Sequences, FiniteSets, TLC

VARIABLES
    emails,               \* run(emails, ...): the input messages
    batchSize,            \* run(..., batchSize)
    retryConfig,          \* EmailFilteringChain.retryConfig
    batches,              \* result of batchEmails
    pc,                   \* position of the run inside processBatches
    i,                    \* processBatches loop index (1-based here)
    attempt,              \* processBatchWithRetry loop variable
    allDecisions,         \* processBatches.allDecisions
    errors,               \* processBatches.errors
    processedCount,       \* processBatches.processedCount
    consecutiveFailures,  \* processBatches.consecutiveFailures
    runStatus,            \* "idle" | "running" | "returned" | "threw"
    lastDelay,            \* history: the latest this.delay(ms) call
    cur,                  \* history: calls, waits and outcome of batch i
    submitted,            \* history: batches passed to analyzeEmails
    adEmails,             \* adapter alone: analyzeEmails input
    adOutcome,            \* adapter alone: what model.invoke does
    adResult,             \* adapter alone: analyzeEmails result
    adPc,                 \* adapter alone: "idle" | "ready" | "done" | "threw"
    rules,                \* RulesManager.rules
    retRef,               \* the array getRules last returned: "none" | "copy" | "store"
    retArr,               \* content of that array when it is a copy
    gotRules,             \* history: what that getRules call returned
    ruleOp,               \* history: the last RulesManager operation
    mailbox,              \* the Gmail mailbox: labels of each message
    unreadOnly,           \* EmailFilteringAgent.unreadOnly
    processingLimit,      \* EmailFilteringAgent.processingLimit
    agPc,                 \* position of the agent inside run() / preview()
    agMode,               \* "none" | "run" | "preview"
    results,              \* executeActions.results
    execLog,              \* history: the executeAction calls of this run
    earlier,              \* history: messages decided / handled by earlier runs
    agReturn,             \* what run() / preview() returned
    chainOutcomes         \* history: what became of each batch of this run

orchVars == << emails, batchSize, retryConfig, batches, pc, i, attempt,
               allDecisions, errors, processedCount, consecutiveFailures,
               runStatus, lastDelay, cur, submitted >>
adVars == << adEmails, adOutcome, adResult, adPc >>
ruleVars == << rules, retRef, retArr, gotRules, ruleOp >>
agentVars == << mailbox, unreadOnly, processingLimit, agPc, agMode, results,
                execLog, earlier, agReturn, chainOutcomes >>
nonOrchVars == << adVars, ruleVars, agentVars >>
nonAdVars == << orchVars, ruleVars, agentVars >>
nonRuleVars == << orchVars, adVars, agentVars >>
vars == << emails, batchSize, retryConfig, batches, pc, i, attempt,
           allDecisions, errors, processedCount, consecutiveFailures,
           runStatus, lastDelay, cur, submitted,
           adEmails, adOutcome, adResult, adPc,
           rules, retRef, retArr, gotRules, ruleOp,
           mailbox, unreadOnly, processingLimit, agPc, agMode, results,
           execLog, earlier, agReturn, chainOutcomes >>

-----------------------------------------------------------------------------
(* Bounds *)

MaxMessages == 3
MaxBatchSize == 3
MaxRetriesBound == 2
JitterSteps == 3
MaxResponseLen == 2
MaxCustomRules == 2
MaxRules == 4
MaxMutations == 2
MaxInbox == 2

-----------------------------------------------------------------------------
(* Generic helpers *)

Min(a, b) == IF a <= b THEN a ELSE b

RECURSIVE Pow2(_)
Pow2(n) == IF n <= 0 THEN 1 ELSE 2 * Pow2(n - 1)

Range(s) == { s[x] : x \in DOMAIN s }

\* String.prototype.includes on character sequences
Includes(s, pat) ==
    \E k \in 1 .. (Len(s) - Len(pat) + 1) :
        SubSeq(s, k, k + Len(pat) - 1) = pat

UpperToLower ==
    [ c \in {"A","B","C","D","E","F","G","H","I","J","K","L","M","N","O",
             "P","Q","R","S","T","U","V","W","X","Y","Z"} |->
        CASE c = "A" -> "a" [] c = "B" -> "b" [] c = "C" -> "c"
          [] c = "D" -> "d" [] c = "E" -> "e" [] c = "F" -> "f"
          [] c = "G" -> "g" [] c = "H" -> "h" [] c = "I" -> "i"
          [] c = "J" -> "j" [] c = "K" -> "k" [] c = "L" -> "l"
          [] c = "M" -> "m" [] c = "N" -> "n" [] c = "O" -> "o"
          [] c = "P" -> "p" [] c = "Q" -> "q" [] c = "R" -> "r"
          [] c = "S" -> "s" [] c = "T" -> "t" [] c = "U" -> "u"
          [] c = "V" -> "v" [] c = "W" -> "w" [] c = "X" -> "x"
          [] c = "Y" -> "y" [] OTHER -> "z" ]

\* String.prototype.toLowerCase on character sequences
toLowerCase(s) ==
    [ x \in DOMAIN s |->
        IF s[x] \in DOMAIN UpperToLower THEN UpperToLower[s[x]] ELSE s[x] ]

-----------------------------------------------------------------------------
(* Retry configuration *)

DefaultMaxRetries == 3
DefaultBaseDelayMs == 1000
DefaultMaxDelayMs == 30000
\* a small maxDelayMs (1.5 x baseDelayMs), so that the cap is reached at attempt 1
SmallMaxDelayMs == DefaultBaseDelayMs + (DefaultBaseDelayMs \div 2)

DEFAULT_RETRY_CONFIG ==
    [ maxRetries |-> DefaultMaxRetries,
      baseDelayMs |-> DefaultBaseDelayMs,
      maxDelayMs |-> DefaultMaxDelayMs ]

\* constructor: { ...DEFAULT_RETRY_CONFIG, ...retryConfig } for the partial
\* configurations the model draws
RetryConfigs ==
    { [ DEFAULT_RETRY_CONFIG EXCEPT !.maxRetries = r, !.maxDelayMs = m ] :
        r \in 0 .. MaxRetriesBound,
        m \in { DefaultMaxDelayMs, SmallMaxDelayMs } }

\* variant: the exponential delay is not capped
calculateDelayNoCap(cfg, att, k) ==
    LET exponentialDelay == cfg.baseDelayMs * Pow2(att)
    IN (exponentialDelay * (3 * JitterSteps + 2 * k)) \div (4 * JitterSteps)

\* calculateDelay(attempt) under configuration cfg with Math.random() = k/JitterSteps:
\*   floor(capped + capped * 0.25 * (2k/J - 1)) = floor(capped * (3J + 2k) / (4J))
calculateDelay(cfg, att, k) ==
    LET exponentialDelay == cfg.baseDelayMs * Pow2(att)
        cappedDelay == Min(exponentialDelay, cfg.maxDelayMs)
    IN (cappedDelay * (3 * JitterSteps + 2 * k)) \div (4 * JitterSteps)

RandomDraws == 0 .. (JitterSteps - 1)

-----------------------------------------------------------------------------
(* Error messages and isRetryableError *)

MsgRateLimit == << "R","a","t","e"," ","L","i","m","i","t" >>
MsgServer503 == << "H","T","T","P"," ","5","0","3" >>
MsgInvalidKey == << "I","n","v","a","l","i","d"," ","k","e","y" >>

ErrorMessages == { MsgRateLimit, MsgServer503, MsgInvalidKey }

RetryablePatterns ==
    { << "r","a","t","e"," ","l","i","m","i","t" >>,
      << "4","2","9" >>,
      << "t","i","m","e","o","u","t" >>,
      << "t","i","m","e","d"," ","o","u","t" >>,
      << "5","0","0" >>, << "5","0","2" >>, << "5","0","3" >>, << "5","0","4" >>,
      << "e","c","o","n","n","r","e","s","e","t" >>,
      << "e","c","o","n","n","r","e","f","u","s","e","d" >>,
      << "n","e","t","w","o","r","k" >> }

isRetryableError(message) ==
    LET lower == toLowerCase(message)
    IN \E p \in RetryablePatterns : Includes(lower, p)

-----------------------------------------------------------------------------
(* Classifier adapter: AIProcessor *)

FilterActions == { "delete", "keep", "archive", "mark_read" }

ReasonAI == "decision of the backend"
ReasonApiFailed == "AI analysis failed, keeping email by default"
ReasonNoDecision == "No explicit decision from AI, keeping by default"
ReasonParseFailed == "Failed to parse AI response, keeping by default"

\* FilterDecisionSchema: z.enum([...]) for action, z.number().min(0).max(1)
\* for confidence (hundredths here)
SchemaValid(entry) ==
    /\ entry.action \in FilterActions
    /\ entry.confidence >= 0
    /\ entry.confidence <= 100

\* AIResponseSchema.parse after the regex match and JSON.parse: content.json
\* is FALSE when no JSON object is found or JSON.parse throws
ParseThrows(content) ==
    \/ ~content.json
    \/ \E x \in DOMAIN content.entries : ~SchemaValid(content.entries[x])

\* new Map(validated.decisions.map(d => [d.emailId, d])).get(id): the last
\* entry with that emailId, or "undefined"
MapHas(entries, id) == \E x \in DOMAIN entries : entries[x].emailId = id

MapGet(entries, id) ==
    LET xs == { x \in DOMAIN entries : entries[x].emailId = id }
        last == CHOOSE x \in xs : \A y \in xs : y <= x
    IN entries[last]

\* variant: the default decision archives the message
DefaultDecisionArchives(id, reason, confidence) ==
    [ emailId |-> id, action |-> "archive", reason |-> reason,
      confidence |-> confidence ]

DefaultDecision(id, reason, confidence) ==
    [ emailId |-> id, action |-> "keep", reason |-> reason,
      confidence |-> confidence ]

\* variant: the validated decisions are returned as they are
parseResponseNoGapFill(content, batch) ==
    IF ParseThrows(content)
    THEN [ x \in DOMAIN batch |-> DefaultDecision(batch[x], ReasonParseFailed, 0) ]
    ELSE content.entries

\* variant: a missing decision is filled like a parse failure (confidence 0)
parseResponseGapFillZero(content, batch) ==
    IF ParseThrows(content)
    THEN [ x \in DOMAIN batch |-> DefaultDecision(batch[x], ReasonParseFailed, 0) ]
    ELSE [ x \in DOMAIN batch |->
             IF MapHas(content.entries, batch[x])
             THEN MapGet(content.entries, batch[x])
             ELSE DefaultDecision(batch[x], ReasonParseFailed, 0) ]

\* variant: entries that fail the schema are skipped, the others are used
parseResponseSkipsInvalid(content, batch) ==
    IF ~content.json
    THEN [ x \in DOMAIN batch |-> DefaultDecision(batch[x], ReasonParseFailed, 0) ]
    ELSE LET valid == SelectSeq(content.entries, SchemaValid)
         IN [ x \in DOMAIN batch |->
                IF MapHas(valid, batch[x])
                THEN MapGet(valid, batch[x])
                ELSE DefaultDecision(batch[x], ReasonNoDecision, 50) ]

\* variant: the decisions come in the order of the response
parseResponseInResponseOrder(content, batch) ==
    IF ParseThrows(content)
    THEN [ x \in DOMAIN batch |-> DefaultDecision(batch[x], ReasonParseFailed, 0) ]
    ELSE SelectSeq(content.entries, LAMBDA e : e.emailId \in Range(batch))
         \o [ x \in DOMAIN SelectSeq(batch, LAMBDA id : ~MapHas(content.entries, id)) |->
                DefaultDecision(SelectSeq(batch, LAMBDA id : ~MapHas(content.entries, id))[x],
                                ReasonNoDecision, 50) ]

parseResponse(content, batch) ==
    IF ParseThrows(content)
    THEN [ x \in DOMAIN batch |-> DefaultDecision(batch[x], ReasonParseFailed, 0) ]
    ELSE [ x \in DOMAIN batch |->
             IF MapHas(content.entries, batch[x])
             THEN MapGet(content.entries, batch[x])
             ELSE DefaultDecision(batch[x], ReasonNoDecision, 50) ]

\* variant: the catch block returns no decision
analyzeEmailsEmptyOnError(batch, outcome) ==
    IF Len(batch) = 0 THEN << >>
    ELSE IF outcome.kind = "error"
         THEN << >>
         ELSE parseResponse(outcome, batch)

\* outcome is what this.model.invoke does: it rejects (kind "error") or it
\* resolves with a content (kind "response")
analyzeEmails(batch, outcome) ==
    IF Len(batch) = 0 THEN << >>
    ELSE IF outcome.kind = "error"
         THEN [ x \in DOMAIN batch |-> DefaultDecision(batch[x], ReasonApiFailed, 0) ]
         ELSE parseResponse(outcome, batch)

BackendError(m) ==
    [ kind |-> "error", message |-> m, json |-> FALSE, entries |-> << >> ]

BackendResponse(isJson, entries) ==
    [ kind |-> "response", message |-> << >>, json |-> isJson, entries |-> entries ]

-----------------------------------------------------------------------------
(* Rule store: RulesManager *)

DEFAULT_RULES ==
    << [ id |-> "spam-promotional",
         description |-> << "D","e","l","e","t","e"," ","s","p","a","m" >>,
         action |-> "delete", priority |-> 1 ],
       [ id |-> "newsletter-archive",
         description |-> << "A","r","c","h","i","v","e"," ","n","e","w","s" >>,
         action |-> "archive", priority |-> 2 ],
       [ id |-> "important-keep",
         description |-> << "K","e","e","p"," ","i","m","p","o","r","t","a","n","t" >>,
         action |-> "keep", priority |-> 3 ] >>

\* String.prototype.startsWith on character sequences
startsWith(str, prefix) ==
    /\ Len(str) >= Len(prefix)
    /\ SubSeq(str, 1, Len(prefix)) = prefix

\* variant: the prefix is compared without toLowerCase()
parseCustomRuleCaseSensitive(ruleStr, index) ==
    LET lowerRule == ruleStr
        action ==
            IF startsWith(lowerRule, << "d","e","l","e","t","e" >>) THEN "delete"
            ELSE IF startsWith(lowerRule, << "a","r","c","h","i","v","e" >>) THEN "archive"
            ELSE IF startsWith(lowerRule, << "k","e","e","p" >>) THEN "keep"
            ELSE IF \/ startsWith(lowerRule, << "m","a","r","k"," ","r","e","a","d" >>)
                    \/ startsWith(lowerRule, << "m","a","r","k","_","r","e","a","d" >>)
                 THEN "mark_read"
            ELSE "keep"
    IN [ id |-> "custom-" \o ToString(index),
         description |-> ruleStr,
         action |-> action,
         priority |-> 10 + index ]

\* parseCustomRule(ruleStr, index), index 0-based
parseCustomRule(ruleStr, index) ==
    LET lowerRule == toLowerCase(ruleStr)
        action ==
            IF startsWith(lowerRule, << "d","e","l","e","t","e" >>) THEN "delete"
            ELSE IF startsWith(lowerRule, << "a","r","c","h","i","v","e" >>) THEN "archive"
            ELSE IF startsWith(lowerRule, << "k","e","e","p" >>) THEN "keep"
            ELSE IF \/ startsWith(lowerRule, << "m","a","r","k"," ","r","e","a","d" >>)
                    \/ startsWith(lowerRule, << "m","a","r","k","_","r","e","a","d" >>)
                 THEN "mark_read"
            ELSE "keep"
    IN [ id |-> "custom-" \o ToString(index),
         description |-> ruleStr,
         action |-> action,
         priority |-> 10 + index ]

\* addCustomRules: forEach push of the parsed rule
addCustomRules(rs, customRules) ==
    rs \o [ k \in DOMAIN customRules |-> parseCustomRule(customRules[k], k - 1) ]

\* constructor
newRulesManager(customRules) == addCustomRules(DEFAULT_RULES, customRules)

RECURSIVE insertByPriority(_, _)
\* rule r placed after every rule of sorted whose priority is not greater
insertByPriority(sorted, r) ==
    IF sorted = << >> THEN << r >>
    ELSE IF r.priority - Head(sorted).priority < 0
         THEN << r >> \o sorted
         ELSE << Head(sorted) >> \o insertByPriority(Tail(sorted), r)

RECURSIVE insertBeforeEqual(_, _)
\* variant: rule r placed before the rules of equal priority
insertBeforeEqual(sorted, r) ==
    IF sorted = << >> THEN << r >>
    ELSE IF r.priority - Head(sorted).priority <= 0
         THEN << r >> \o sorted
         ELSE << Head(sorted) >> \o insertBeforeEqual(Tail(sorted), r)

RECURSIVE sortWith(_, _, _)
sortWith(ins(_, _), done, todo) ==
    IF todo = << >> THEN done
    ELSE sortWith(ins, ins(done, Head(todo)), Tail(todo))

\* variant: getRules with a sort that is not stable
getRulesUnstable(rs) == sortWith(insertBeforeEqual, << >>, rs)

\* getRules(): [...this.rules].sort((a, b) => a.priority - b.priority), the
\* stable sort of ECMAScript 2019
getRules(rs) == sortWith(insertByPriority, << >>, rs)

\* variant: only the first rule with the identifier is removed
removeRuleArrayFirstOnly(rs, ruleId) ==
    LET hits == { x \in DOMAIN rs : rs[x].id = ruleId }
    IN IF hits = {} THEN rs
       ELSE LET first == CHOOSE x \in hits : \A y \in hits : x <= y
            IN SubSeq(rs, 1, first - 1) \o SubSeq(rs, first + 1, Len(rs))

\* removeRule(ruleId): the filtered array and the returned boolean
removeRuleArray(rs, ruleId) == SelectSeq(rs, LAMBDA r : r.id # ruleId)

removeRuleResult(rs, ruleId) == Len(removeRuleArray(rs, ruleId)) < Len(rs)

\* ruleOp.texts: the custom rule texts when the operation is the constructor
NoRuleOp ==
    [ name |-> "none", id |-> "", result |-> FALSE, count |-> 0, texts |-> << >> ]

\* custom rule texts of the configuration
CustomTexts ==
    { << "D","e","l","e","t","e"," ","a","d","s" >>,
      << "A","R","C","H","I","V","E"," ","a","l","l" >>,
      << "M","a","r","k"," ","r","e","a","d"," ","x" >>,
      << "m","a","r","k","_","r","e","a","d"," ","y" >>,
      << "K","e","e","p"," ","i","t" >>,
      << "D","o"," ","i","t" >> }

\* rules a caller passes to addRule
AddableRules ==
    { [ id |-> "test-rule", description |-> << "T" >>, action |-> "keep",
        priority |-> 100 ],
      [ id |-> "test-rule", description |-> << "T" >>, action |-> "keep",
        priority |-> 1 ],
      [ id |-> "tie-rule", description |-> << "U" >>, action |-> "archive",
        priority |-> 2 ],
      [ id |-> "spam-promotional", description |-> << "V" >>, action |-> "delete",
        priority |-> 2 ] }

RemovableIds ==
    { "spam-promotional", "important-keep", "test-rule", "custom-0", "non-existent" }

InitRulesIdle ==
    /\ rules = DEFAULT_RULES
    /\ retRef = "none"
    /\ retArr = << >>
    /\ gotRules = << >>
    /\ ruleOp = NoRuleOp

\* addRule(rule); the array returned by an earlier getRules is not followed
\* any further
AddRule(rule) ==
    /\ Len(rules) < MaxRules
    /\ rules' = Append(rules, rule)
    /\ ruleOp' = [ name |-> "add", id |-> rule.id, result |-> TRUE, count |-> 0,
                   texts |-> << >> ]
    /\ retRef' = "none"
    /\ retArr' = << >>
    /\ gotRules' = << >>
    /\ UNCHANGED nonRuleVars

\* removeRule(ruleId)
RemoveRule(ruleId) ==
    /\ rules' = removeRuleArray(rules, ruleId)
    /\ ruleOp' = [ name |-> "remove", id |-> ruleId,
                   result |-> removeRuleResult(rules, ruleId), count |-> 0,
                   texts |-> << >> ]
    /\ retRef' = "none"
    /\ retArr' = << >>
    /\ gotRules' = << >>
    /\ UNCHANGED nonRuleVars

\* variant: getRules sorts this.rules in place and returns it
GetRulesCallInPlace ==
    /\ rules' = getRules(rules)
    /\ retRef' = "store"
    /\ retArr' = << >>
    /\ gotRules' = getRules(rules)
    /\ ruleOp' = [ name |-> "get", id |-> "", result |-> TRUE, count |-> 0,
                   texts |-> << >> ]
    /\ UNCHANGED nonRuleVars

\* a call of getRules(): a new array, sorted; this.rules is not touched
GetRulesCall ==
    /\ retRef' = "copy"
    /\ retArr' = getRules(rules)
    /\ gotRules' = getRules(rules)
    /\ ruleOp' = [ name |-> "get", id |-> "", result |-> TRUE, count |-> 0,
                   texts |-> << >> ]
    /\ UNCHANGED rules
    /\ UNCHANGED nonRuleVars

Reverse(q) == [ x \in DOMAIN q |-> q[Len(q) + 1 - x] ]

\* what the caller does to the array it got: reverse(), pop(), push(rule)
Mutated(arr, op) ==
    CASE op = "reverse" -> Reverse(arr)
      [] op = "pop" -> SubSeq(arr, 1, Len(arr) - 1)
      [] OTHER -> Append(arr, [ id |-> "pushed", description |-> << "P" >>,
                               action |-> "delete", priority |-> 0 ])

\* the caller mutates the array getRules returned; ruleOp.count counts the
\* mutations made to that array
MutateReturned(op) ==
    /\ retRef # "none"
    /\ ruleOp.name \in { "get", "mutate" }
    /\ ruleOp.count < MaxMutations
    /\ IF retRef = "copy"
       THEN /\ Mutated(retArr, op) # retArr
            /\ retArr' = Mutated(retArr, op)
            /\ rules' = rules
       ELSE /\ Mutated(rules, op) # rules
            /\ rules' = Mutated(rules, op)
            /\ retArr' = retArr
    /\ ruleOp' = [ name |-> "mutate", id |-> op, result |-> TRUE,
                   count |-> ruleOp.count + 1,
                   texts |-> << >> ]
    /\ UNCHANGED << retRef, gotRules >>
    /\ UNCHANGED nonRuleVars

-----------------------------------------------------------------------------
(* Batch orchestrator: EmailFilteringChain *)

\* prepareEmails keeps the identifier of each message (the other fields of
\* the summary are not represented)
prepareEmails(es) == [ x \in DOMAIN es |-> es[x] ]

\* Array.prototype.slice(from, to) with 0 <= from <= to, 0-based, to exclusive
Slice(es, from, to) == SubSeq(es, from + 1, Min(to, Len(es)))

RECURSIVE batchFrom(_, _, _)
\* the loop of batchEmails from offset off on
batchFrom(es, size, off) ==
    IF off < Len(es)
    THEN << Slice(es, off, off + size) >> \o batchFrom(es, size, off + size)
    ELSE << >>

RECURSIVE batchFromFullOnly(_, _, _)
batchFromFullOnly(es, size, off) ==
    IF off + size <= Len(es)
    THEN << Slice(es, off, off + size) >> \o batchFromFullOnly(es, size, off + size)
    ELSE << >>

RECURSIVE batchFromOverlapping(_, _, _)
batchFromOverlapping(es, size, off) ==
    IF off < Len(es)
    THEN << Slice(es, off, off + size + 1) >> \o batchFromOverlapping(es, size, off + size)
    ELSE << >>

\* variant: each batch also takes the first message of the next one
batchEmailsOverlapping(es, size) == batchFromOverlapping(es, size, 0)

\* variant: a last batch smaller than the batch size is dropped
batchEmailsFullOnly(es, size) == batchFromFullOnly(es, size, 0)

batchEmails(es, size) == batchFrom(es, size, 0)

NoDelay == [ kind |-> "none", batch |-> 0, arg |-> 0, ms |-> 0 ]
\* cur.lastError is processBatchWithRetry's lastError (<< >> is undefined)
FreshBatch ==
    [ calls |-> 0, waits |-> 0, status |-> "pending", backend |-> "none",
      lastError |-> << >> ]

\* what model.invoke may do for a batch: reject, answer without JSON, or
\* answer with a schema-valid JSON giving, in batch order or in the reverse
\* order, an action for some of the messages
OrchActions == { "delete", "keep" }

RECURSIVE EntriesFor(_, _, _)
EntriesFor(batch, f, x) ==
    IF x > Len(batch) THEN << >>
    ELSE (IF f[x] = "none" THEN << >>
          ELSE << [ emailId |-> batch[x], action |-> f[x],
                    reason |-> ReasonAI, confidence |-> 90 ] >>)
         \o EntriesFor(batch, f, x + 1)

OrchOutcomes(batch) ==
    { BackendError(m) : m \in { MsgServer503, MsgInvalidKey } }
    \cup { BackendResponse(FALSE, << >>) }
    \cup { BackendResponse(TRUE, EntriesFor(batch, f, 1)) :
             f \in [ DOMAIN batch -> OrchActions \cup { "none" } ] }
    \cup { BackendResponse(TRUE, Reverse(EntriesFor(batch, f, 1))) :
             f \in [ DOMAIN batch -> OrchActions \cup { "none" } ] }

BackendKind(outcome) ==
    IF outcome.kind = "response" THEN "response"
    ELSE IF isRetryableError(outcome.message) THEN "retryableError"
    ELSE "fatalError"

\* executeActions: the counters before the loop
ZeroResults ==
    [ deleted |-> 0, kept |-> 0, archived |-> 0, markedRead |-> 0, errors |-> 0 ]

\* run(): the statistics before the workflow
ZeroStats ==
    [ totalProcessed |-> 0, deleted |-> 0, kept |-> 0, archived |-> 0,
      markedRead |-> 0, errors |-> 0 ]

NoReturn == [ kind |-> "none", stats |-> ZeroStats, decisions |-> << >> ]

DefaultBatchSize == 50
DefaultProcessingLimit == 100

\* no EmailFilteringAgent is constructed
InitAgentIdle ==
    /\ mailbox = << >>
    /\ unreadOnly = FALSE
    /\ processingLimit = [ finite |-> TRUE, n |-> DefaultProcessingLimit ]
    /\ agPc = "unused"
    /\ agMode = "none"
    /\ results = ZeroResults
    /\ execLog = << >>
    /\ earlier = [ decided |-> {}, handled |-> {} ]
    /\ agReturn = NoReturn
    /\ chainOutcomes = << >>

InitAdapterIdle ==
    /\ adEmails = << >>
    /\ adOutcome = BackendResponse(FALSE, << >>)
    /\ adResult = << >>
    /\ adPc = "idle"

Init ==
    /\ emails \in { [ x \in 1 .. n |-> x ] : n \in 0 .. MaxMessages }
    /\ batchSize \in 1 .. MaxBatchSize
    /\ retryConfig \in RetryConfigs
    /\ batches = << >>
    /\ pc = "idle"
    /\ i = 0
    /\ attempt = 0
    /\ allDecisions = << >>
    /\ errors = << >>
    /\ processedCount = 0
    /\ consecutiveFailures = 0
    /\ runStatus = "idle"
    /\ lastDelay = NoDelay
    /\ cur = FreshBatch
    /\ submitted = {}
    /\ InitAdapterIdle
    /\ InitRulesIdle
    /\ InitAgentIdle

\* run -> createChain: prepareEmails, batchEmails, then processBatches up to
\* its first await
Run ==
    /\ pc = "idle"
    /\ batches' = batchEmails(prepareEmails(emails), batchSize)
    /\ IF Len(batches') = 0
       THEN /\ pc' = "done"
            /\ runStatus' = "returned"
            /\ i' = i
       ELSE /\ pc' = "classify"
            /\ runStatus' = "running"
            /\ i' = 1
    /\ attempt' = 0
    /\ allDecisions' = << >>
    /\ errors' = << >>
    /\ processedCount' = 0
    /\ consecutiveFailures' = 0
    /\ UNCHANGED << emails, batchSize, retryConfig, lastDelay, cur, submitted >>
    /\ UNCHANGED nonOrchVars

\* processBatches lines 145-156 after batch i: the pacing test, or the end of
\* the loop and the return
AfterBatch ==
    IF i < Len(batches)
    THEN pc' = "pace" /\ runStatus' = runStatus
    ELSE pc' = "done" /\ runStatus' = "returned"

\* processBatchWithRetry lines 171-177: the wait before a retry
RetryDelay(k) ==
    /\ pc = "retryWait"
    /\ lastDelay' = [ kind |-> "retry", batch |-> i, arg |-> attempt,
                      ms |-> calculateDelay(retryConfig, attempt, k) ]
    /\ cur' = [ cur EXCEPT !.waits = @ + 1 ]
    /\ pc' = "classify"
    /\ UNCHANGED << emails, batchSize, retryConfig, batches, i, attempt,
                    allDecisions, errors, processedCount, consecutiveFailures,
                    runStatus, submitted >>
    /\ UNCHANGED nonOrchVars

\* line 179 resolves; processBatches lines 124-127, then AfterBatch
ClassifyResolves(outcome) ==
    /\ pc = "classify"
    /\ allDecisions' = allDecisions \o analyzeEmails(batches[i], outcome)
    /\ processedCount' = processedCount + Len(batches[i])
    /\ consecutiveFailures' = 0
    /\ cur' = [ cur EXCEPT !.calls = @ + 1, !.status = "success",
                           !.backend = BackendKind(outcome) ]
    /\ submitted' = submitted \cup { i }
    /\ AfterBatch
    /\ UNCHANGED << emails, batchSize, retryConfig, batches, i, attempt,
                    errors, lastDelay >>
    /\ UNCHANGED nonOrchVars

\* variant: the catch block records the failure and rethrows
BatchFailedRethrows(message, status) ==
    /\ errors' = Append(errors, [ batch |-> i, message |-> message ])
    /\ consecutiveFailures' = consecutiveFailures + 1
    /\ cur' = [ cur EXCEPT !.calls = @ + 1, !.status = status,
                           !.lastError = message ]
    /\ pc' = "done"
    /\ runStatus' = "threw"
    /\ UNCHANGED << attempt, allDecisions, processedCount >>

\* processBatches lines 128-143: the catch block, then AfterBatch unless the
\* circuit-breaker wait comes first
BatchFailed(message, status) ==
    /\ errors' = Append(errors, [ batch |-> i, message |-> message ])
    /\ consecutiveFailures' = consecutiveFailures + 1
    /\ cur' = [ cur EXCEPT !.calls = @ + 1, !.status = status,
                           !.lastError = message ]
    /\ IF consecutiveFailures + 1 >= 3
       THEN pc' = "breaker" /\ runStatus' = runStatus
       ELSE AfterBatch
    /\ UNCHANGED << attempt, allDecisions, processedCount >>

\* variant: a non-retryable error escapes processBatches
ClassifyRejectsFatalEscapes(message) ==
    /\ pc = "classify"
    /\ submitted' = submitted \cup { i }
    /\ IF ~isRetryableError(message)
       THEN /\ pc' = "done"
            /\ runStatus' = "threw"
            /\ cur' = [ cur EXCEPT !.calls = @ + 1, !.status = "fatal",
                                   !.lastError = message ]
            /\ errors' = Append(errors, [ batch |-> i, message |-> message ])
            /\ UNCHANGED << attempt, allDecisions, processedCount,
                            consecutiveFailures >>
       ELSE IF attempt + 1 <= retryConfig.maxRetries
            THEN /\ attempt' = attempt + 1
                 /\ pc' = "retryWait"
                 /\ cur' = [ cur EXCEPT !.calls = @ + 1, !.lastError = message ]
                 /\ UNCHANGED << allDecisions, errors, processedCount,
                                 consecutiveFailures, runStatus >>
            ELSE BatchFailed(message, "exhausted")
    /\ UNCHANGED << emails, batchSize, retryConfig, batches, i, lastDelay >>
    /\ UNCHANGED nonOrchVars

\* variant: the retry loop runs while attempt < maxRetries
ClassifyRejectsOneRetryLess(message) ==
    /\ pc = "classify"
    /\ submitted' = submitted \cup { i }
    /\ IF ~isRetryableError(message)
       THEN BatchFailed(message, "fatal")
       ELSE IF attempt + 1 < retryConfig.maxRetries
            THEN /\ attempt' = attempt + 1
                 /\ pc' = "retryWait"
                 /\ cur' = [ cur EXCEPT !.calls = @ + 1, !.lastError = message ]
                 /\ UNCHANGED << allDecisions, errors, processedCount,
                                 consecutiveFailures, runStatus >>
            ELSE BatchFailed(message, "exhausted")
    /\ UNCHANGED << emails, batchSize, retryConfig, batches, i, lastDelay >>
    /\ UNCHANGED nonOrchVars

\* variant: a non-retryable error is retried like a retryable one
ClassifyRejectsRetriesFatal(message) ==
    /\ pc = "classify"
    /\ submitted' = submitted \cup { i }
    /\ IF attempt + 1 <= retryConfig.maxRetries
       THEN /\ attempt' = attempt + 1
            /\ pc' = "retryWait"
            /\ cur' = [ cur EXCEPT !.calls = @ + 1, !.lastError = message ]
            /\ UNCHANGED << allDecisions, errors, processedCount,
                            consecutiveFailures, runStatus >>
       ELSE BatchFailed(message, "exhausted")
    /\ UNCHANGED << emails, batchSize, retryConfig, batches, i, lastDelay >>
    /\ UNCHANGED nonOrchVars

\* variant: the first retry is made without a wait (attempt > 1)
ClassifyRejectsNoFirstWait(message) ==
    /\ pc = "classify"
    /\ submitted' = submitted \cup { i }
    /\ IF ~isRetryableError(message)
       THEN BatchFailed(message, "fatal")
       ELSE IF attempt + 1 <= retryConfig.maxRetries
            THEN /\ attempt' = attempt + 1
                 /\ pc' = IF attempt + 1 > 1 THEN "retryWait" ELSE "classify"
                 /\ cur' = [ cur EXCEPT !.calls = @ + 1, !.lastError = message ]
                 /\ UNCHANGED << allDecisions, errors, processedCount,
                                 consecutiveFailures, runStatus >>
            ELSE BatchFailed(message, "exhausted")
    /\ UNCHANGED << emails, batchSize, retryConfig, batches, i, lastDelay >>
    /\ UNCHANGED nonOrchVars

\* line 179 rejects with an Error whose message is given; processBatchWithRetry
\* lines 180-198
ClassifyRejects(message) ==
    /\ pc = "classify"
    /\ submitted' = submitted \cup { i }
    /\ IF ~isRetryableError(message)
       THEN BatchFailed(message, "fatal")
       ELSE IF attempt + 1 <= retryConfig.maxRetries
            THEN /\ attempt' = attempt + 1
                 /\ pc' = "retryWait"
                 /\ cur' = [ cur EXCEPT !.calls = @ + 1, !.lastError = message ]
                 /\ UNCHANGED << allDecisions, errors, processedCount,
                                 consecutiveFailures, runStatus >>
            ELSE BatchFailed(message, "exhausted")
    /\ UNCHANGED << emails, batchSize, retryConfig, batches, i, lastDelay >>
    /\ UNCHANGED nonOrchVars

\* variant: the circuit-breaker wait is the base delay
BreakerDelayWaitsBase ==
    /\ pc = "breaker"
    /\ lastDelay' = [ kind |-> "breaker", batch |-> i, arg |-> consecutiveFailures,
                      ms |-> retryConfig.baseDelayMs ]
    /\ AfterBatch
    /\ UNCHANGED << emails, batchSize, retryConfig, batches, i, attempt,
                    allDecisions, errors, processedCount, consecutiveFailures,
                    cur, submitted >>
    /\ UNCHANGED nonOrchVars

\* processBatches line 141: the wait of maxDelayMs after a third consecutive
\* failure
BreakerDelay ==
    /\ pc = "breaker"
    /\ lastDelay' = [ kind |-> "breaker", batch |-> i, arg |-> consecutiveFailures,
                      ms |-> retryConfig.maxDelayMs ]
    /\ AfterBatch
    /\ UNCHANGED << emails, batchSize, retryConfig, batches, i, attempt,
                    allDecisions, errors, processedCount, consecutiveFailures,
                    cur, submitted >>
    /\ UNCHANGED nonOrchVars

\* variant: the pacing wait grows with all the failures of the run
PaceDelayCountsAllFailures(k) ==
    /\ pc = "pace"
    /\ lastDelay' = [ kind |-> "pace", batch |-> i, arg |-> Len(errors),
                      ms |-> calculateDelay(retryConfig, Len(errors), k) ]
    /\ i' = i + 1
    /\ attempt' = 0
    /\ cur' = FreshBatch
    /\ pc' = "classify"
    /\ UNCHANGED << emails, batchSize, retryConfig, batches, allDecisions,
                    errors, processedCount, consecutiveFailures, runStatus,
                    submitted >>
    /\ UNCHANGED nonOrchVars

\* processBatches lines 146-149: the wait between batches, then the next
\* iteration up to the classifier call of attempt 0
PaceDelay(k) ==
    /\ pc = "pace"
    /\ lastDelay' = [ kind |-> "pace", batch |-> i, arg |-> consecutiveFailures,
                      ms |-> calculateDelay(retryConfig, consecutiveFailures, k) ]
    /\ i' = i + 1
    /\ attempt' = 0
    /\ cur' = FreshBatch
    /\ pc' = "classify"
    /\ UNCHANGED << emails, batchSize, retryConfig, batches, allDecisions,
                    errors, processedCount, consecutiveFailures, runStatus,
                    submitted >>
    /\ UNCHANGED nonOrchVars

Next ==
    \/ Run
    \/ \E k \in RandomDraws : RetryDelay(k)
    \/ \E outcome \in OrchOutcomes(IF pc = "classify" THEN batches[i] ELSE << >>) :
          ClassifyResolves(outcome)
    \/ \E m \in ErrorMessages : ClassifyRejects(m)
    \/ BreakerDelay
    \/ \E k \in RandomDraws : PaceDelay(k)

Spec == Init /\ [][Next]_vars

-----------------------------------------------------------------------------
(* The classifier adapter alone: analyzeEmails applied to one batch and one *)
(* behaviour of the backend                                                 *)

\* an identifier that no input message carries
UnknownId == MaxMessages + 1

\* one entry of the "decisions" array of a response: schema-valid, with an
\* action outside the enum, or with a confidence above 1
AdEntries ==
    { [ emailId |-> id, action |-> a, reason |-> ReasonAI, confidence |-> 90 ] :
        id \in { UnknownId } \cup (1 .. MaxMessages),
        a \in FilterActions \cup { "spam" } }
    \cup
    { [ emailId |-> id, action |-> "keep", reason |-> ReasonAI, confidence |-> 150 ] :
        id \in { UnknownId } \cup (1 .. MaxMessages) }

RECURSIVE SeqsUpTo(_, _)
\* the sequences over S of length at most n
SeqsUpTo(S, n) ==
    IF n = 0 THEN { << >> }
    ELSE LET shorter == SeqsUpTo(S, n - 1)
         IN shorter \cup { Append(q, e) : q \in shorter, e \in S }

AdOutcomes ==
    { BackendError(m) : m \in ErrorMessages }
    \cup { BackendResponse(FALSE, << >>) }
    \cup { BackendResponse(TRUE, es) : es \in SeqsUpTo(AdEntries, MaxResponseLen) }

\* batches of distinct identifiers
AdBatches ==
    { q \in SeqsUpTo(1 .. MaxMessages, MaxBatchSize) :
        \A x, y \in DOMAIN q : x # y => q[x] # q[y] }

\* no EmailFilteringChain run takes place
InitOrchUnused ==
    /\ emails = << >>
    /\ batchSize = 1
    /\ retryConfig = DEFAULT_RETRY_CONFIG
    /\ batches = << >>
    /\ pc = "unused"
    /\ i = 0
    /\ attempt = 0
    /\ allDecisions = << >>
    /\ errors = << >>
    /\ processedCount = 0
    /\ consecutiveFailures = 0
    /\ runStatus = "idle"
    /\ lastDelay = NoDelay
    /\ cur = FreshBatch
    /\ submitted = {}

InitAdapter ==
    /\ InitOrchUnused
    /\ adEmails \in AdBatches
    /\ adOutcome \in AdOutcomes
    /\ adResult = << >>
    /\ adPc = "ready"
    /\ InitRulesIdle
    /\ InitAgentIdle

\* variant: the error of model.invoke is rethrown
AdAnalyzeRethrows ==
    /\ adPc = "ready"
    /\ IF Len(adEmails) > 0 /\ adOutcome.kind = "error"
       THEN adResult' = << >> /\ adPc' = "threw"
       ELSE adResult' = analyzeEmails(adEmails, adOutcome) /\ adPc' = "done"
    /\ UNCHANGED << adEmails, adOutcome >>
    /\ UNCHANGED nonAdVars

\* one call of analyzeEmails(adEmails, rules) during which model.invoke
\* behaves as adOutcome; the call returns (adPc "done"), it never throws
AdAnalyze ==
    /\ adPc = "ready"
    /\ adResult' = analyzeEmails(adEmails, adOutcome)
    /\ adPc' = "done"
    /\ UNCHANGED << adEmails, adOutcome >>
    /\ UNCHANGED nonAdVars

NextAdapter == AdAnalyze

SpecAdapter == InitAdapter /\ [][NextAdapter]_vars

-----------------------------------------------------------------------------
(* The rule store alone: a RulesManager and a caller of its methods *)

InitRules ==
    /\ InitOrchUnused
    /\ InitAdapterIdle
    /\ InitAgentIdle
    /\ \E customRules \in SeqsUpTo(CustomTexts, MaxCustomRules) :
          /\ rules = newRulesManager(customRules)
          /\ ruleOp = [ NoRuleOp EXCEPT !.name = "new", !.texts = customRules ]
    /\ retRef = "none"
    /\ retArr = << >>
    /\ gotRules = << >>

NextRules ==
    \/ \E rule \in AddableRules : AddRule(rule)
    \/ \E ruleId \in RemovableIds : RemoveRule(ruleId)
    \/ GetRulesCall
    \/ \E op \in { "reverse", "pop", "push" } : MutateReturned(op)

SpecRules == InitRules /\ [][NextRules]_vars

-----------------------------------------------------------------------------
(* Workflow driver: EmailFilteringAgent on a GmailClient.  The client is   *)
(* initialized, so that its operations report a failed API call by         *)
(* returning false and do not throw.                                       *)

\* the messages of the mailbox, in the order in which messages.list gives them
InboxIds == 1 .. MaxInbox

\* getEmails lines 190-193: in:inbox -label:<processed> [is:unread]
MatchesQueryIgnoringLabel(mb, id, unread) ==
    /\ mb[id].inbox
    /\ unread => mb[id].unread

MatchesQuery(mb, id, unread) ==
    /\ mb[id].inbox
    /\ ~mb[id].processed
    /\ unread => mb[id].unread

RECURSIVE listMessages(_, _, _)
\* the identifiers messages.list returns over all pages, from id on
listMessages(mb, unread, id) ==
    IF id > MaxInbox THEN << >>
    ELSE (IF MatchesQuery(mb, id, unread) THEN << id >> ELSE << >>)
         \o listMessages(mb, unread, id + 1)

\* getEmails: list, trim to maxResults, load the details; a message whose
\* details cannot be loaded (detailFails) is left out
getEmails(mb, unread, maxResults, detailFails) ==
    LET allMessages == listMessages(mb, unread, 1)
        messagesToProcess ==
            IF maxResults.finite THEN Slice(allMessages, 0, maxResults.n)
            ELSE allMessages
    IN SelectSeq(messagesToProcess, LAMBDA id : id \notin detailFails)

\* the GmailClient operations on a message; ok is whether the API call succeeds
deleteEmail(mb, id, ok) == IF ok THEN [ mb EXCEPT ![id].inbox = FALSE ] ELSE mb
archiveEmail(mb, id, ok) == IF ok THEN [ mb EXCEPT ![id].inbox = FALSE ] ELSE mb
markAsRead(mb, id, ok) == IF ok THEN [ mb EXCEPT ![id].unread = FALSE ] ELSE mb
markAsProcessed(mb, id, ok) == IF ok THEN [ mb EXCEPT ![id].processed = TRUE ] ELSE mb

\* variant: the handled marker is set after a failed action too
executeActionMarksAlways(d, mb, actionOk, markOk) ==
    IF d.action = "keep"
    THEN [ success |-> actionOk,
           marked |-> IF actionOk THEN "ok" ELSE "failed",
           mailbox |-> markAsProcessed(mb, d.emailId, actionOk) ]
    ELSE LET acted == CASE d.action = "delete" -> deleteEmail(mb, d.emailId, actionOk)
                        [] d.action = "archive" -> archiveEmail(mb, d.emailId, actionOk)
                        [] d.action = "mark_read" -> markAsRead(mb, d.emailId, actionOk)
         IN [ success |-> actionOk,
              marked |-> IF markOk THEN "ok" ELSE "failed",
              mailbox |-> markAsProcessed(acted, d.emailId, markOk) ]

\* executeAction(decision): the result, whether markAsProcessed was called
\* and with which outcome, and the mailbox afterwards
executeAction(d, mb, actionOk, markOk) ==
    IF d.action = "keep"
    THEN [ success |-> actionOk,
           marked |-> IF actionOk THEN "ok" ELSE "failed",
           mailbox |-> markAsProcessed(mb, d.emailId, actionOk) ]
    ELSE LET acted == CASE d.action = "delete" -> deleteEmail(mb, d.emailId, actionOk)
                        [] d.action = "archive" -> archiveEmail(mb, d.emailId, actionOk)
                        [] d.action = "mark_read" -> markAsRead(mb, d.emailId, actionOk)
         IN IF actionOk
            THEN [ success |-> TRUE,
                   marked |-> IF markOk THEN "ok" ELSE "failed",
                   mailbox |-> markAsProcessed(acted, d.emailId, markOk) ]
            ELSE [ success |-> FALSE, marked |-> "notCalled", mailbox |-> acted ]

\* executeActions lines 138-155: the counter a decision increments
countResult(res, action, success) ==
    IF ~success THEN [ res EXCEPT !.errors = @ + 1 ]
    ELSE CASE action = "delete" -> [ res EXCEPT !.deleted = @ + 1 ]
           [] action = "keep" -> [ res EXCEPT !.kept = @ + 1 ]
           [] action = "archive" -> [ res EXCEPT !.archived = @ + 1 ]
           [] action = "mark_read" -> [ res EXCEPT !.markedRead = @ + 1 ]

\* variant: the errors of the statistics are those of the actions only
makeStatsActionErrorsOnly(res, count, errs) ==
    [ totalProcessed |-> count, deleted |-> res.deleted, kept |-> res.kept,
      archived |-> res.archived, markedRead |-> res.markedRead,
      errors |-> res.errors ]

\* run() lines 94-99
makeStats(res, count, errs) ==
    [ totalProcessed |-> count, deleted |-> res.deleted, kept |-> res.kept,
      archived |-> res.archived, markedRead |-> res.markedRead,
      errors |-> Len(errs) + res.errors ]

\* the awaited analyzeEmails call of a batch rejects with this message until
\* processBatchWithRetry gives the batch up
Rejected(m) == [ BackendError(m) EXCEPT !.kind = "rejected" ]

\* a response whose only entry asks to delete the first message of the batch
\* with a confidence above 1, which the schema does not admit
MalformedResponse(batch) ==
    BackendResponse(TRUE, << [ emailId |-> batch[1], action |-> "delete",
                               reason |-> ReasonAI, confidence |-> 150 ] >>)

\* what the classification of one batch may come to
AgentOutcomes(batch) ==
    { Rejected(MsgInvalidKey), BackendError(MsgServer503), MalformedResponse(batch) }
    \cup { BackendResponse(TRUE, EntriesFor(batch, f, 1)) :
             f \in [ DOMAIN batch -> FilterActions \cup { "none" } ] }

RECURSIVE ChainChoices(_, _)
\* one outcome for each batch from batch x on
ChainChoices(bs, x) ==
    IF x > Len(bs) THEN { << >> }
    ELSE { << o >> \o rest : o \in AgentOutcomes(bs[x]),
                             rest \in ChainChoices(bs, x + 1) }

RECURSIVE processBatches(_, _, _)
\* what processBatches accumulates from batch x on when batch y comes to
\* choice[y - x + 1]: the decisions of the batches that succeed, one error
\* for each batch that fails
processBatches(bs, choice, x) ==
    IF x > Len(bs)
    THEN [ decisions |-> << >>, errors |-> << >>, processedCount |-> 0 ]
    ELSE LET rest == processBatches(bs, Tail(choice), x + 1)
             o == Head(choice)
         IN IF o.kind = "rejected"
            THEN [ rest EXCEPT
                     !.errors = << [ batch |-> x, message |-> o.message ] >> \o @ ]
            ELSE [ rest EXCEPT
                     !.decisions = analyzeEmails(bs[x], o) \o @,
                     !.processedCount = Len(bs[x]) + @ ]

\* the messages decided by this run, and those among them that cannot match
\* the query of getEmails any more
DecidedIds(log) == { log[x].emailId : x \in DOMAIN log }
HandledIds(log) ==
    { log[x].emailId : x \in { y \in DOMAIN log :
          /\ log[y].success
          /\ log[y].action \in { "delete", "archive" } \/ log[y].marked = "ok" } }

\* getEmailDetails fails for no message or for one message
DetailFailures == { {} } \cup { { id } : id \in InboxIds }

InitAgent ==
    /\ emails = << >>
    /\ batchSize \in { 1, DefaultBatchSize }
    /\ retryConfig = DEFAULT_RETRY_CONFIG
    /\ batches = << >>
    /\ pc = "unused"
    /\ i = 0
    /\ attempt = 0
    /\ allDecisions = << >>
    /\ errors = << >>
    /\ processedCount = 0
    /\ consecutiveFailures = 0
    /\ runStatus = "idle"
    /\ lastDelay = NoDelay
    /\ cur = FreshBatch
    /\ submitted = {}
    /\ InitAdapterIdle
    /\ InitRulesIdle
    /\ mailbox \in [ InboxIds -> { [ inbox |-> TRUE, unread |-> u, processed |-> FALSE ] :
                                     u \in BOOLEAN } ]
    /\ unreadOnly \in BOOLEAN
    /\ processingLimit \in { [ finite |-> TRUE, n |-> 1 ],
                             [ finite |-> FALSE, n |-> 0 ] }
    /\ agPc = "idle"
    /\ agMode = "none"
    /\ results = ZeroResults
    /\ execLog = << >>
    /\ earlier = [ decided |-> {}, handled |-> {} ]
    /\ agReturn = NoReturn
    /\ chainOutcomes = << >>

\* what the agent leaves alone
agentFrame ==
    UNCHANGED << batchSize, retryConfig, pc, i, attempt, consecutiveFailures,
                 lastDelay, cur, submitted, adVars, ruleVars, unreadOnly,
                 processingLimit >>

\* run() lines 61-80 / preview() lines 254-264: the fetch, and the return
\* when there is nothing to process
AgentFetch(mode, detailFails) ==
    /\ agPc \in { "idle", "returned" }
    /\ agMode' = mode
    /\ emails' = getEmails(mailbox, unreadOnly, processingLimit, detailFails)
    /\ batches' = << >>
    /\ allDecisions' = << >>
    /\ errors' = << >>
    /\ processedCount' = 0
    /\ runStatus' = "idle"
    /\ results' = ZeroResults
    /\ execLog' = << >>
    /\ IF Len(emails') = 0
       THEN /\ agPc' = "returned"
            /\ agReturn' = IF mode = "run"
                           THEN [ NoReturn EXCEPT !.kind = "stats" ]
                           ELSE [ NoReturn EXCEPT !.kind = "decisions" ]
       ELSE /\ agPc' = "classify"
            /\ agReturn' = NoReturn
    /\ chainOutcomes' = << >>
    /\ UNCHANGED << mailbox, earlier >>
    /\ agentFrame

RECURSIVE processBatchesKeepsFailed(_, _, _)
processBatchesKeepsFailed(bs, choice, x) ==
    IF x > Len(bs)
    THEN [ decisions |-> << >>, errors |-> << >>, processedCount |-> 0 ]
    ELSE LET rest == processBatchesKeepsFailed(bs, Tail(choice), x + 1)
             o == Head(choice)
         IN IF o.kind = "rejected"
            THEN [ rest EXCEPT
                     !.errors = << [ batch |-> x, message |-> o.message ] >> \o @,
                     !.decisions = analyzeEmails(bs[x], BackendError(o.message)) \o @ ]
            ELSE [ rest EXCEPT
                     !.decisions = analyzeEmails(bs[x], o) \o @,
                     !.processedCount = Len(bs[x]) + @ ]

\* variant: the messages of a failed batch get keep decisions
ChainReturnsDecidesFailed(choice) ==
    /\ agPc = "classify"
    /\ batches' = batchEmails(prepareEmails(emails), batchSize)
    /\ LET filterResult == processBatchesKeepsFailed(batches', choice, 1)
       IN /\ allDecisions' = filterResult.decisions
          /\ errors' = filterResult.errors
          /\ processedCount' = filterResult.processedCount
          /\ runStatus' = "returned"
          /\ IF agMode = "preview"
             THEN /\ agPc' = "returned"
                  /\ agReturn' = [ NoReturn EXCEPT !.kind = "decisions",
                                     !.decisions = filterResult.decisions ]
             ELSE IF Len(filterResult.decisions) = 0
                  THEN /\ agPc' = "returned"
                       /\ agReturn' = [ NoReturn EXCEPT !.kind = "stats",
                              !.stats = makeStats(ZeroResults,
                                                  filterResult.processedCount,
                                                  filterResult.errors) ]
                  ELSE /\ agPc' = "execute"
                       /\ agReturn' = agReturn
    /\ chainOutcomes' = choice
    /\ UNCHANGED << emails, mailbox, agMode, results, execLog, earlier >>
    /\ agentFrame

\* variant: a preview executes the decisions like a run
ChainReturnsPreviewExecutes(choice) ==
    /\ agPc = "classify"
    /\ batches' = batchEmails(prepareEmails(emails), batchSize)
    /\ LET filterResult == processBatches(batches', choice, 1)
       IN /\ allDecisions' = filterResult.decisions
          /\ errors' = filterResult.errors
          /\ processedCount' = filterResult.processedCount
          /\ runStatus' = "returned"
          /\ IF Len(filterResult.decisions) = 0
             THEN /\ agPc' = "returned"
                  /\ agReturn' = [ NoReturn EXCEPT !.kind = "stats",
                         !.stats = makeStats(ZeroResults,
                                             filterResult.processedCount,
                                             filterResult.errors) ]
             ELSE /\ agPc' = "execute"
                  /\ agReturn' = agReturn
    /\ chainOutcomes' = choice
    /\ UNCHANGED << emails, mailbox, agMode, results, execLog, earlier >>
    /\ agentFrame

\* the awaited filteringChain.run(...) returns; in a run, executeActions
\* follows up to its first gateway call (or to the return of run() when
\* there is no decision); a preview returns the decisions
ChainReturns(choice) ==
    /\ agPc = "classify"
    /\ batches' = batchEmails(prepareEmails(emails), batchSize)
    /\ LET filterResult == processBatches(batches', choice, 1)
       IN /\ allDecisions' = filterResult.decisions
          /\ errors' = filterResult.errors
          /\ processedCount' = filterResult.processedCount
          /\ runStatus' = "returned"
          /\ IF agMode = "preview"
             THEN /\ agPc' = "returned"
                  /\ agReturn' = [ NoReturn EXCEPT !.kind = "decisions",
                                     !.decisions = filterResult.decisions ]
             ELSE IF Len(filterResult.decisions) = 0
                  THEN /\ agPc' = "returned"
                       /\ agReturn' = [ NoReturn EXCEPT !.kind = "stats",
                              !.stats = makeStats(ZeroResults,
                                                  filterResult.processedCount,
                                                  filterResult.errors) ]
                  ELSE /\ agPc' = "execute"
                       /\ agReturn' = agReturn
    /\ chainOutcomes' = choice
    /\ UNCHANGED << emails, mailbox, agMode, results, execLog, earlier >>
    /\ agentFrame

\* variant: the loop ends at the first action that fails
ExecuteDecisionStopsOnFailure(actionOk, markOk) ==
    /\ agPc = "execute"
    /\ LET decision == allDecisions[Len(execLog) + 1]
           done == executeAction(decision, mailbox, actionOk, markOk)
       IN /\ mailbox' = done.mailbox
          /\ results' = countResult(results, decision.action, done.success)
          /\ execLog' = Append(execLog,
                 [ emailId |-> decision.emailId, action |-> decision.action,
                   success |-> done.success, marked |-> done.marked ])
    /\ IF Len(execLog') = Len(allDecisions) \/ ~execLog'[Len(execLog')].success
       THEN /\ agPc' = "returned"
            /\ agReturn' = [ NoReturn EXCEPT !.kind = "stats",
                               !.stats = makeStats(results', processedCount, errors) ]
            /\ earlier' = [ decided |-> earlier.decided \cup DecidedIds(execLog'),
                            handled |-> earlier.handled \cup HandledIds(execLog') ]
       ELSE UNCHANGED << agPc, agReturn, earlier >>
    /\ UNCHANGED << emails, batches, allDecisions, errors, processedCount,
                    runStatus, agMode, chainOutcomes >>
    /\ agentFrame

\* executeActions: one iteration of the loop (executeAction, the counter,
\* the 100 ms wait), and after the last one the return of run()
ExecuteDecision(actionOk, markOk) ==
    /\ agPc = "execute"
    /\ LET decision == allDecisions[Len(execLog) + 1]
           done == executeAction(decision, mailbox, actionOk, markOk)
       IN /\ mailbox' = done.mailbox
          /\ results' = countResult(results, decision.action, done.success)
          /\ execLog' = Append(execLog,
                 [ emailId |-> decision.emailId, action |-> decision.action,
                   success |-> done.success, marked |-> done.marked ])
    /\ IF Len(execLog') = Len(allDecisions)
       THEN /\ agPc' = "returned"
            /\ agReturn' = [ NoReturn EXCEPT !.kind = "stats",
                               !.stats = makeStats(results', processedCount, errors) ]
            /\ earlier' = [ decided |-> earlier.decided \cup DecidedIds(execLog'),
                            handled |-> earlier.handled \cup HandledIds(execLog') ]
       ELSE UNCHANGED << agPc, agReturn, earlier >>
    /\ UNCHANGED << emails, batches, allDecisions, errors, processedCount,
                    runStatus, agMode, chainOutcomes >>
    /\ agentFrame

NextAgent ==
    \/ \E mode \in { "run", "preview" }, detailFails \in DetailFailures :
          AgentFetch(mode, detailFails)
    \/ \E choice \in ChainChoices(IF agPc = "classify"
                                   THEN batchEmails(prepareEmails(emails), batchSize)
                                   ELSE << >>, 1) :
          ChainReturns(choice)
    \/ \E actionOk \in BOOLEAN, markOk \in BOOLEAN : ExecuteDecision(actionOk, markOk)

SpecAgent == InitAgent /\ [][NextAgent]_vars

-----------------------------------------------------------------------------
(* The run of the orchestrator with the loop of batchEmails taken one      *)
(* iteration at a step, for the batch sizes the configuration can supply   *)
(* (parseInt of MAX_EMAIL_BATCH_SIZE).                                     *)

\* Array.prototype.slice(from, to) for any integers: a negative index counts
\* from the end of the array
jsSlice(es, from, to) ==
    LET norm(k) == IF k < 0 THEN (IF Len(es) + k < 0 THEN 0 ELSE Len(es) + k)
                   ELSE Min(k, Len(es))
    IN IF norm(from) >= norm(to) THEN << >>
       ELSE SubSeq(es, norm(from) + 1, norm(to))

BatchSizesSupplied == { 0 - 1, 0, 1, 2 }

\* the iterations of the loop of batchEmails that are followed; a loop that
\* makes progress ends before (it makes at most one iteration for each
\* message)
MaxLoopIterations == MaxMessages + 1

InitSplit ==
    /\ emails \in { [ x \in 1 .. n |-> x ] : n \in 0 .. MaxMessages }
    /\ batchSize \in BatchSizesSupplied
    /\ retryConfig = [ DEFAULT_RETRY_CONFIG EXCEPT !.maxRetries = 1 ]
    /\ batches = << >>
    /\ pc = "idle"
    /\ i = 0
    /\ attempt = 0
    /\ allDecisions = << >>
    /\ errors = << >>
    /\ processedCount = 0
    /\ consecutiveFailures = 0
    /\ runStatus = "idle"
    /\ lastDelay = NoDelay
    /\ cur = FreshBatch
    /\ submitted = {}
    /\ InitAdapterIdle
    /\ InitRulesIdle
    /\ InitAgentIdle

\* run -> createChain -> batchEmails line 95: the loop starts with i = 0
BatchEmailsStart ==
    /\ pc = "idle"
    /\ pc' = "split"
    /\ runStatus' = "running"
    /\ batches' = << >>
    /\ i' = 0
    /\ UNCHANGED << emails, batchSize, retryConfig, attempt, allDecisions, errors,
                    processedCount, consecutiveFailures, lastDelay, cur, submitted >>
    /\ UNCHANGED nonOrchVars

\* batchEmails lines 97-99: one iteration of the loop.  The iterations after
\* the first MaxLoopIterations are not followed: with batchSize >= 1 there
\* are none (i grows at each iteration and the loop ends after at most
\* emails.length of them); with batchSize <= 0 the index never grows, so
\* that i < emails.length holds at every later iteration as well and the
\* loop does not end.
BatchEmailsStep ==
    /\ pc = "split"
    /\ i < Len(emails)
    /\ Len(batches) < MaxLoopIterations
    /\ batches' = Append(batches, jsSlice(prepareEmails(emails), i, i + batchSize))
    /\ i' = i + batchSize
    /\ UNCHANGED << emails, batchSize, retryConfig, pc, attempt, allDecisions,
                    errors, processedCount, consecutiveFailures, runStatus,
                    lastDelay, cur, submitted >>
    /\ UNCHANGED nonOrchVars

\* batchEmails returns (i >= emails.length); processBatches up to its first
\* await
BatchEmailsReturn ==
    /\ pc = "split"
    /\ ~(i < Len(emails))
    /\ IF Len(batches) = 0
       THEN /\ pc' = "done"
            /\ runStatus' = "returned"
            /\ i' = 0
       ELSE /\ pc' = "classify"
            /\ runStatus' = "running"
            /\ i' = 1
    /\ attempt' = 0
    /\ allDecisions' = << >>
    /\ errors' = << >>
    /\ processedCount' = 0
    /\ consecutiveFailures' = 0
    /\ UNCHANGED << emails, batchSize, retryConfig, batches, lastDelay, cur,
                    submitted >>
    /\ UNCHANGED nonOrchVars

NextSplit ==
    \/ BatchEmailsStart
    \/ BatchEmailsStep
    \/ BatchEmailsReturn
    \/ \E k \in RandomDraws : RetryDelay(k)
    \/ ClassifyResolves(BackendResponse(FALSE, << >>))
    \/ \E m \in ErrorMessages : ClassifyRejects(m)
    \/ BreakerDelay
    \/ \E k \in RandomDraws : PaceDelay(k)

\* every classifier call and every wait completes, and the synchronous code
\* runs on
SpecSplit == InitSplit /\ [][NextSplit]_vars /\ WF_vars(NextSplit)

-----------------------------------------------------------------------------
(* Properties *)

FailedBatches == { errors[x].batch : x \in DOMAIN errors }

ErrorsOf(b) == { x \in DOMAIN errors : errors[x].batch = b }

DecisionsOf(id) == { x \in DOMAIN allDecisions : allDecisions[x].emailId = id }

RECURSIVE FailedMessageCount(_)
\* number of messages in the batches recorded as failed
FailedMessageCount(errs) ==
    IF errs = << >> THEN 0
    ELSE Len(batches[Head(errs).batch]) + FailedMessageCount(Tail(errs))

\* C1: when run returns, the number of decisions plus the number of messages
\* in the batches recorded as failed equals the number of input messages.
C1_DecisionsPlusFailedIsTotal ==
    pc = "done" =>
        Len(allDecisions) + FailedMessageCount(errors) = Len(emails)

C1_Witness ==
    /\ pc = "done"
    /\ Len(batches) >= 2
    /\ errors # << >>
    /\ allDecisions # << >>
    /\ Len(batches[Len(batches)]) < batchSize

\* C2 as stated: when run returns there is exactly one decision for every
\* input message, also when some batches failed.
C2_OneDecisionPerMessage ==
    pc = "done" =>
        \A m \in Range(emails) : Cardinality(DecisionsOf(m)) = 1

\* C2 amended: when run returns there is exactly one decision for every
\* message of a batch that succeeded, none for a message of a batch recorded
\* as failed, and no decision for anything that is not an input message.
C2_OneDecisionPerProcessedMessage ==
    pc = "done" =>
        /\ \A b \in DOMAIN batches : \A m \in Range(batches[b]) :
              Cardinality(DecisionsOf(m)) = IF b \in FailedBatches THEN 0 ELSE 1
        /\ \A x \in DOMAIN allDecisions :
              allDecisions[x].emailId \in Range(emails)

C2_Witness ==
    /\ pc = "done"
    /\ FailedBatches # {}
    /\ \E b \in DOMAIN batches : b \notin FailedBatches
    /\ Len(allDecisions) < Len(emails)
    /\ \E x \in DOMAIN allDecisions : allDecisions[x].reason = ReasonApiFailed

\* C3: a failed batch (retries exhausted or non-retryable error) does not make
\* the run raise; it is recorded as exactly one error entry, and every batch
\* after it is still submitted to the classifier.
C3_FailureIsolatedPerBatch ==
    /\ runStatus # "threw"
    /\ \A b \in DOMAIN batches : Cardinality(ErrorsOf(b)) <= 1
    /\ cur.status \in { "fatal", "exhausted" } => Cardinality(ErrorsOf(i)) = 1
    /\ pc = "done" => /\ runStatus = "returned"
                      /\ submitted = DOMAIN batches

C3_Witness ==
    /\ pc = "done"
    /\ Len(batches) >= 3
    /\ errors # << >>
    /\ errors[1].batch = 1
    /\ isRetryableError(errors[1].message)
    /\ submitted = DOMAIN batches

\* C4 as stated: a non-retryable classifier error propagates out of the run,
\* and the batches after the failing one are never processed.
C4_FatalAbortsRun ==
    \A x \in DOMAIN errors :
        ~isRetryableError(errors[x].message) =>
            /\ pc = "done" => runStatus = "threw"
            /\ \A b \in submitted : b <= errors[x].batch

\* C4 amended: a non-retryable classifier error leaves processBatchWithRetry
\* only; processBatches records it as the failure of that batch, the batches
\* after the failing one are still processed and the run returns normally.
C4_FatalAbortsBatchOnly ==
    \A x \in DOMAIN errors :
        ~isRetryableError(errors[x].message) =>
            /\ runStatus # "threw"
            /\ pc = "done" =>
                  /\ runStatus = "returned"
                  /\ \A b \in DOMAIN batches : b > errors[x].batch => b \in submitted

C4_Witness ==
    /\ pc = "done"
    /\ runStatus = "returned"
    /\ errors # << >>
    /\ errors[1].batch = 1
    /\ ~isRetryableError(errors[1].message)
    /\ 2 \in submitted

\* C5: when the backend call fails with a retryable error, no result is
\* accepted for the batch from that call (the backend is called again after a
\* backoff wait).
C5_RetryableBackendErrorNotAccepted ==
    cur.status = "success" => cur.backend # "retryableError"

\* C6: the classifier is never called more than 1 + maxRetries times for a
\* batch; a batch whose calls all failed with retryable errors is exhausted
\* after exactly 1 + maxRetries calls, its error is appended to the error list
\* and it contributes no decision.
C6_ExhaustedAfterMaxRetries ==
    /\ cur.calls <= retryConfig.maxRetries + 1
    /\ cur.status = "pending" => cur.calls <= retryConfig.maxRetries
    /\ cur.status = "exhausted" =>
          /\ cur.calls = retryConfig.maxRetries + 1
          /\ isRetryableError(cur.lastError)
          /\ errors # << >>
          /\ errors[Len(errors)] = [ batch |-> i, message |-> cur.lastError ]
          /\ \A m \in Range(batches[i]) : DecisionsOf(m) = {}

C6_Witness ==
    /\ cur.status = "exhausted"
    /\ retryConfig.maxRetries = MaxRetriesBound
    /\ cur.calls = MaxRetriesBound + 1

\* C7: after a classifier call of a batch failed with a non-retryable error,
\* no further classifier call is made for that batch, the batch contributes no
\* decision and exactly one error entry describes it.
C7_FatalStopsBatch ==
    (cur.lastError # << >> /\ ~isRetryableError(cur.lastError)) =>
        /\ cur.status = "fatal"
        /\ pc \notin { "classify", "retryWait" }
        /\ cur.calls = attempt + 1
        /\ \A m \in Range(batches[i]) : DecisionsOf(m) = {}
        /\ Cardinality(ErrorsOf(i)) = 1
        /\ errors[Len(errors)] = [ batch |-> i, message |-> cur.lastError ]

C7_Witness ==
    /\ cur.status = "fatal"
    /\ attempt >= 1
    /\ ~isRetryableError(cur.lastError)

\* C8: a batch that succeeds after exactly maxRetries retryable failures is
\* recorded as successful with its decisions, after exactly maxRetries backoff
\* waits: one before each retry (attempt >= 1) and none before attempt 0.
C8_SucceedsAfterMaxRetries ==
    /\ pc = "classify" => cur.waits = attempt /\ cur.calls = attempt
    /\ pc = "retryWait" => /\ attempt >= 1
                           /\ cur.waits = attempt - 1
                           /\ cur.calls = attempt
    /\ cur.calls = 0 => cur.waits = 0
    /\ (cur.status = "success" /\ cur.calls = retryConfig.maxRetries + 1) =>
          /\ cur.waits = retryConfig.maxRetries
          /\ i \notin FailedBatches
          /\ Len(allDecisions) >= Len(batches[i])
          /\ \A x \in DOMAIN batches[i] :
                allDecisions[Len(allDecisions) - Len(batches[i]) + x].emailId
                    = batches[i][x]

C8_Witness ==
    /\ cur.status = "success"
    /\ retryConfig.maxRetries >= 1
    /\ cur.calls = retryConfig.maxRetries + 1
    /\ cur.waits = retryConfig.maxRetries

\* C9 as stated: every backoff delay waited before a retry is at most
\* maxDelayMs.
C9_RetryDelayAtMostMaxDelay ==
    lastDelay.kind = "retry" => lastDelay.ms <= retryConfig.maxDelayMs

\* C9 amended: every backoff delay waited before a retry is at most
\* 1.25 times maxDelayMs (the capped delay plus a jitter of at most 25% of it).
C9_RetryDelayBelowMaxDelayPlusJitter ==
    lastDelay.kind = "retry" =>
        /\ lastDelay.ms >= 0
        /\ 4 * lastDelay.ms <= 5 * retryConfig.maxDelayMs

C9_Witness ==
    /\ lastDelay.kind = "retry"
    /\ lastDelay.ms > retryConfig.maxDelayMs

\* C10: for a non-empty batch and any behaviour of the backend, analyzeEmails
\* returns exactly one decision per input message, the x-th decision carrying
\* the identifier of the x-th input message.
C10_OneDecisionPerInputInOrder ==
    (adPc = "done" /\ Len(adEmails) > 0) =>
        /\ Len(adResult) = Len(adEmails)
        /\ \A x \in DOMAIN adEmails : adResult[x].emailId = adEmails[x]

C10_Witness ==
    /\ adPc = "done"
    /\ Len(adEmails) >= 2
    /\ adOutcome.kind = "response"
    /\ adOutcome.json
    /\ Len(adOutcome.entries) = 2
    /\ adOutcome.entries[1].emailId = adOutcome.entries[2].emailId
    /\ adOutcome.entries[1].action = "delete"
    /\ adOutcome.entries[2].action = "archive"
    /\ adResult[1].action = "archive"

\* C11: for a schema-valid response, an input message without an entry gets
\* a keep decision with confidence 0.5, and an input message with an entry
\* gets an entry of the response carrying its identifier, unchanged (the last
\* such entry when the response has several).
C11_MissingDecisionFilledWithKeep ==
    (adPc = "done" /\ adOutcome.kind = "response" /\ adOutcome.json
       /\ \A y \in DOMAIN adOutcome.entries :
             /\ adOutcome.entries[y].action \in FilterActions
             /\ adOutcome.entries[y].confidence \in 0 .. 100) =>
        \A x \in DOMAIN adEmails :
            LET own == { y \in DOMAIN adOutcome.entries :
                           adOutcome.entries[y].emailId = adEmails[x] }
            IN IF own = {}
               THEN /\ adResult[x].emailId = adEmails[x]
                    /\ adResult[x].action = "keep"
                    /\ adResult[x].confidence = 50
               ELSE /\ \E y \in own : adResult[x] = adOutcome.entries[y]
                    /\ \A y \in own : \E z \in own :
                          z >= y /\ adResult[x] = adOutcome.entries[z]

C11_Witness ==
    /\ adPc = "done"
    /\ adEmails = << 1, 2 >>
    /\ adOutcome.kind = "response"
    /\ adOutcome.json
    /\ Len(adOutcome.entries) = 1
    /\ adOutcome.entries[1].emailId = 1
    /\ adOutcome.entries[1].action = "delete"
    /\ adResult[1].action = "delete"
    /\ adResult[2].action = "keep"
    /\ adResult[2].confidence = 50

\* C12: when the response has no parseable JSON or one of its entries fails
\* the schema, every message of the batch gets the keep decision with
\* confidence 0 of the parse failure; no entry of the response is used.
C12_BrokenPayloadAllDefault ==
    (adPc = "done" /\ adOutcome.kind = "response"
       /\ (\/ ~adOutcome.json
           \/ \E y \in DOMAIN adOutcome.entries :
                 \/ adOutcome.entries[y].action \notin FilterActions
                 \/ adOutcome.entries[y].confidence \notin 0 .. 100)) =>
        /\ Len(adResult) = Len(adEmails)
        /\ \A x \in DOMAIN adEmails :
              adResult[x] = [ emailId |-> adEmails[x], action |-> "keep",
                              reason |-> ReasonParseFailed, confidence |-> 0 ]

C12_Witness ==
    /\ adPc = "done"
    /\ adEmails = << 1, 2 >>
    /\ adOutcome.kind = "response"
    /\ adOutcome.json
    /\ Len(adOutcome.entries) = 2
    /\ adOutcome.entries[1] = [ emailId |-> 1, action |-> "delete",
                                reason |-> ReasonAI, confidence |-> 90 ]
    /\ adOutcome.entries[2].emailId = 2
    /\ adOutcome.entries[2].action = "spam"
    /\ adResult[1].action = "keep"
    /\ adResult[1].confidence = 0

\* C13: when model.invoke raises, analyzeEmails returns (it does not raise)
\* one decision per input message, each with action keep and confidence 0.
C13_BackendErrorAllKeep ==
    /\ adPc # "threw"
    /\ (adPc = "done" /\ Len(adEmails) > 0 /\ adOutcome.kind = "error") =>
          /\ Len(adResult) = Len(adEmails)
          /\ \A x \in DOMAIN adEmails :
                /\ adResult[x].emailId = adEmails[x]
                /\ adResult[x].action = "keep"
                /\ adResult[x].confidence = 0

C13_Witness ==
    /\ adPc = "done"
    /\ Len(adEmails) = 2
    /\ adOutcome.kind = "error"
    /\ adOutcome.message = MsgInvalidKey
    /\ Len(adResult) = 2

\* C14 as stated: for every decision executed in a run, whatever the
\* outcome of its mailbox action, markAsProcessed is invoked for the message.
C14_MarkHandledForEveryDecision ==
    \A x \in DOMAIN execLog : execLog[x].marked # "notCalled"

\* C14: for a decision executed in a run, markAsProcessed is invoked for the
\* message exactly when the action is keep (it is the action itself) or the
\* delete, archive or mark-read call has succeeded; after a failed delete,
\* archive or mark-read it is not invoked.
C14_MarkHandledUnlessActionFailed ==
    \A x \in DOMAIN execLog :
        (execLog[x].marked # "notCalled")
            <=> (execLog[x].action = "keep" \/ execLog[x].success)

C14_Witness ==
    /\ agMode = "run"
    /\ agPc = "returned"
    /\ \E x \in DOMAIN execLog :
          execLog[x].action = "delete" /\ ~execLog[x].success
          /\ execLog[x].marked = "notCalled"
    /\ \E x \in DOMAIN execLog :
          execLog[x].action = "keep" /\ execLog[x].marked = "ok"

\* the messages of the fetch of the run or preview that is under way
FetchedNow == IF agPc \in { "classify", "execute" } THEN Range(emails) ELSE {}

ExecCount(action, success) ==
    Cardinality({ x \in DOMAIN execLog :
                    execLog[x].action = action /\ execLog[x].success = success })

C17_PreviewOnlyFetchesAndClassifies ==
    agMode = "preview" =>
        /\ execLog = << >>
        /\ agPc # "execute"
        /\ agPc = "returned" =>
              /\ agReturn.kind = "decisions"
              /\ agReturn.decisions = allDecisions

C17_Witness ==
    /\ agMode = "preview"
    /\ agPc = "returned"
    /\ Len(agReturn.decisions) = 2
    /\ agReturn.decisions[1].action = "delete"
    /\ \A id \in InboxIds : mailbox[id].inbox /\ ~mailbox[id].processed

\* C18: no two rules stored in the rule store share an identifier.
C18_RuleIdsUnique ==
    \A x, y \in DOMAIN rules : x # y => rules[x].id # rules[y].id

\* C19: what getRules() returns holds exactly the stored rules, sorted
\* non-decreasing by priority, the rules of equal priority in the order in
\* which they are stored (their insertion order).
C19_GetRulesSortedStable ==
    (retRef # "none" /\ ruleOp.name = "get") =>
        /\ Len(gotRules) = Len(rules)
        /\ \A x, y \in DOMAIN gotRules :
              x < y => gotRules[x].priority <= gotRules[y].priority
        /\ \A p \in { rules[x].priority : x \in DOMAIN rules } :
              SelectSeq(gotRules, LAMBDA r : r.priority = p)
                = SelectSeq(rules, LAMBDA r : r.priority = p)

C19_Witness ==
    /\ ruleOp.name = "get"
    /\ Len(rules) >= 4
    /\ \E x, y \in DOMAIN rules : x < y /\ rules[x].priority > rules[y].priority
    /\ \E x, y \in DOMAIN rules :
          x < y /\ rules[x].priority = rules[y].priority /\ rules[x].id # rules[y].id

\* C20: after the caller has mutated the array that getRules() returned
\* (reverse, pop, push), a further getRules() call still returns what that
\* call returned.
C20_ReturnedArrayIsACopy ==
    retRef # "none" => getRules(rules) = gotRules

C20_Witness ==
    /\ ruleOp.name = "mutate"
    /\ ruleOp.count = 2
    /\ retArr # gotRules
    /\ Len(retArr) < Len(gotRules)
    /\ getRules(rules) = gotRules

\* the prefixes that name an action, in lower case
ActionPrefixes ==
    { [ prefix |-> << "d","e","l","e","t","e" >>, action |-> "delete" ],
      [ prefix |-> << "a","r","c","h","i","v","e" >>, action |-> "archive" ],
      [ prefix |-> << "k","e","e","p" >>, action |-> "keep" ],
      [ prefix |-> << "m","a","r","k"," ","r","e","a","d" >>, action |-> "mark_read" ],
      [ prefix |-> << "m","a","r","k","_","r","e","a","d" >>, action |-> "mark_read" ] }

\* the action a text names by its prefix, whatever the case; keep when it
\* names none
NamedAction(text) ==
    LET hits == { e \in ActionPrefixes : startsWith(toLowerCase(text), e.prefix) }
    IN IF hits = {} THEN "keep" ELSE (CHOOSE e \in hits : TRUE).action

\* C21: after construction the store holds the default rules followed by one
\* rule for each custom text: the text at index k (0-based) has become the
\* rule custom-k of priority 10+k, with the action its prefix names.
C21_EveryCustomTextBecomesARule ==
    ruleOp.name = "new" =>
        /\ Len(rules) = Len(DEFAULT_RULES) + Len(ruleOp.texts)
        /\ \A k \in DOMAIN ruleOp.texts :
              LET r == rules[Len(DEFAULT_RULES) + k]
              IN /\ r.id = "custom-" \o ToString(k - 1)
                 /\ r.priority = 10 + (k - 1)
                 /\ r.action = NamedAction(ruleOp.texts[k])
                 /\ r.description = ruleOp.texts[k]

C21_Witness ==
    /\ ruleOp.name = "new"
    /\ Len(ruleOp.texts) = 2
    /\ ruleOp.texts[1] = << "D","o"," ","i","t" >>
    /\ ruleOp.texts[2] = << "A","R","C","H","I","V","E"," ","a","l","l" >>
    /\ rules[5].id = "custom-1"
    /\ rules[5].action = "archive"
    /\ rules[4].action = "keep"

\* the x-th smallest element of a set of numbers
NthOf(S, x) == CHOOSE e \in S : Cardinality({ y \in S : y <= e }) = x

\* a removeRule(id) call on store before that left store after and
\* returned result
RemovedExactly(before, after, id, result) ==
    LET keptIdx == { x \in DOMAIN before : before[x].id # id }
    IN /\ result = (\E x \in DOMAIN before : before[x].id = id)
       /\ \A x \in DOMAIN after : after[x].id # id
       /\ Len(after) = Cardinality(keptIdx)
       /\ \A x \in DOMAIN after : after[x] = before[NthOf(keptIdx, x)]
       /\ ~result => after = before

\* C22: removeRule(id) returns true exactly when a rule with that identifier
\* was stored; afterwards no rule has that identifier and the other rules
\* are the same, in the same order; on false the store is unchanged.
C22_RemoveRuleRemovesExactlyThatId ==
    [][ ruleOp'.name = "remove" =>
            RemovedExactly(rules, rules', ruleOp'.id, ruleOp'.result) ]_vars

C22_Witness ==
    /\ ruleOp.name = "remove"
    /\ ruleOp.id = "spam-promotional"
    /\ ruleOp.result
    /\ Len(rules) >= 3
    /\ rules[1].id = "newsletter-archive"

RECURSIVE Flatten(_)
\* the concatenation of the sequences of a sequence
Flatten(qs) == IF qs = << >> THEN << >> ELSE Head(qs) \o Flatten(Tail(qs))

\* C23: N messages and a batch size B >= 1 give ceil(N/B) batches, each of
\* them non-empty and of at most B messages, all but the last of exactly B,
\* and their concatenation is the input.
C23_SplitIntoConsecutiveBatches ==
    (pc \notin { "idle", "unused" } /\ batchSize >= 1) =>
        /\ Len(batches) = (Len(emails) + batchSize - 1) \div batchSize
        /\ \A x \in DOMAIN batches :
              /\ Len(batches[x]) >= 1
              /\ Len(batches[x]) <= batchSize
              /\ x < Len(batches) => Len(batches[x]) = batchSize
        /\ Flatten(batches) = prepareEmails(emails)

C23_Witness ==
    /\ pc = "done"
    /\ Len(emails) = 3
    /\ batchSize = 2
    /\ batches = << << 1, 2 >>, << 3 >> >>

RECURSIVE TrailingFailures(_)
\* the number of consecutive failed batches that end with batch b
TrailingFailures(b) ==
    IF b = 0 \/ b \notin FailedBatches THEN 0 ELSE 1 + TrailingFailures(b - 1)

\* C24: a pacing wait follows a batch that is not the last one, and its delay
\* is calculateDelay of the number of consecutive failed batches that end
\* with that batch (0 after a success); every batch but the first starts
\* right after the pacing wait of the batch before it; none follows the last.
C24_PacingWaitAfterEachBatchButLast ==
    /\ lastDelay.kind = "pace" =>
          /\ lastDelay.batch = i - 1
          /\ lastDelay.batch < Len(batches)
    /\ (pc = "classify" /\ cur = FreshBatch /\ i > 1) =>
          /\ lastDelay.kind = "pace"
          /\ lastDelay.arg = TrailingFailures(i - 1)
          /\ \E k \in RandomDraws :
                lastDelay.ms = calculateDelay(retryConfig, TrailingFailures(i - 1), k)
    /\ pc = "pace" => i < Len(batches)
    /\ pc = "done" => i = Len(batches)

C24_Witness ==
    /\ pc = "classify"
    /\ cur = FreshBatch
    /\ i = 3
    /\ FailedBatches = { 1 }
    /\ lastDelay.kind = "pace"
    /\ lastDelay.arg = 0

RECURSIVE IsSubsequence(_, _)
\* a is b with some elements left out
IsSubsequence(a, b) ==
    IF a = << >> THEN TRUE
    ELSE IF b = << >> THEN FALSE
    ELSE IF Head(a) = Head(b) THEN IsSubsequence(Tail(a), Tail(b))
    ELSE IsSubsequence(a, Tail(b))

\* C26: the identifiers of the decisions, in the order of the decisions, are
\* the input identifiers with some left out: the batches contribute in input
\* order, and a batch's decisions are in the order of its messages.
C26_DecisionsInInputOrder ==
    pc \notin { "idle", "unused" } =>
        IsSubsequence([ x \in DOMAIN allDecisions |-> allDecisions[x].emailId ],
                      prepareEmails(emails))

C26_Witness ==
    /\ pc = "done"
    /\ batchSize = 2
    /\ Len(emails) = 3
    /\ errors = << >>
    /\ [ x \in DOMAIN allDecisions |-> allDecisions[x].emailId ] = << 1, 2, 3 >>
    /\ allDecisions[1].reason = ReasonAI
    /\ allDecisions[2].reason = ReasonAI

\* the backend answered the batch of message id with a response that the
\* schema admits and that holds a decision of this action for id
BackendDecided(id, action) ==
    \E b \in DOMAIN batches :
        /\ id \in Range(batches[b])
        /\ chainOutcomes[b].kind = "response"
        /\ ~ParseThrows(chainOutcomes[b])
        /\ \E x \in DOMAIN chainOutcomes[b].entries :
              /\ chainOutcomes[b].entries[x].emailId = id
              /\ chainOutcomes[b].entries[x].action = action

\* C27: a delete, archive or mark-read is applied to a message only when the
\* backend decided it for that message in a schema-valid response; a decision
\* that does not come from such a response (missing entry, malformed
\* response, backend error) is keep.
C27_DestructiveOnlyIfBackendDecided ==
    /\ \A x \in DOMAIN execLog :
          execLog[x].action # "keep" =>
              BackendDecided(execLog[x].emailId, execLog[x].action)
    /\ \A x \in DOMAIN allDecisions :
          ~BackendDecided(allDecisions[x].emailId, allDecisions[x].action) =>
              allDecisions[x].action = "keep"

C27_Witness ==
    /\ agMode = "run"
    /\ agPc = "returned"
    /\ Len(execLog) = 2
    /\ chainOutcomes[1] = MalformedResponse(batches[1])
    /\ allDecisions[1].reason = ReasonParseFailed
    /\ execLog[1].action = "keep"
    /\ execLog[2].action = "delete"
    /\ execLog[2].success
    /\ ~mailbox[execLog[2].emailId].inbox

\* the messages of the batches recorded as failed in this run
FailedBatchMessages ==
    UNION { Range(batches[b]) : b \in FailedBatches \cap DOMAIN batches }

\* C28: a message of a batch recorded as failed gets no decision, no mailbox
\* action and no handled marker in that run: it still matches the query of
\* getEmails.
C28_FailedBatchMessagesUntouched ==
    agMode = "run" =>
        \A id \in FailedBatchMessages :
            /\ id \notin DecidedIds(execLog)
            /\ \A x \in DOMAIN allDecisions : allDecisions[x].emailId # id
            /\ ~mailbox[id].processed
            /\ MatchesQuery(mailbox, id, unreadOnly)

C28_Witness ==
    /\ agMode = "run"
    /\ agPc = "returned"
    /\ FailedBatches = { 1 }
    /\ Len(batches) = 2
    /\ Len(execLog) = 1
    /\ execLog[1].marked = "ok"
    /\ mailbox[batches[2][1]].processed
    /\ ~mailbox[batches[1][1]].processed

\* C29: in the statistics run() returns, kept + deleted + archived +
\* markedRead + (errors - number of failed batches) is the number of
\* decisions of the orchestrator, and so is totalProcessed.
C29_StatisticsAddUp ==
    (agPc = "returned" /\ agReturn.kind = "stats") =>
        LET st == agReturn.stats
        IN /\ st.kept + st.deleted + st.archived + st.markedRead
                + (st.errors - Len(errors)) = Len(allDecisions)
           /\ st.totalProcessed = Len(allDecisions)

C29_Witness ==
    /\ agPc = "returned"
    /\ agReturn.kind = "stats"
    /\ Len(errors) = 1
    /\ agReturn.stats.errors = 2
    /\ agReturn.stats.totalProcessed = 1
    /\ Len(allDecisions) = 1

=============================================================================
